---- MODULE Spec2Model ----
(***************************************************************************)
(* Position accounting of NovusEdge: the service handlers of               *)
(* database/services (create.py, delete.py), the portfolio repository and  *)
(* the handle_db_errors wrapper of database/repositories/base.py, run      *)
(* against one PostgreSQL connection whose open transaction is committed   *)
(* when the connection context exits (database/connection.py).             *)
(*                                                                         *)
(* Numbers.  Every Decimal of the program is an integer count of units of  *)
(* 10^-DecimalDigits.  Products and quotients are rounded half-even to     *)
(* that unit, as Python's decimal context rounds them to its precision.    *)
(***************************************************************************)
EXTENDS Integers, Sequences, FiniteSets, TLC

VARIABLES db, last, ops, call, procs, gen

vars == <<db, last, ops, call, procs, gen>>

\* The variables of the accounting handlers, of one wrapped repository call,
\* of two connections at once and of the portfolio generator.
ledger == <<db, last, ops>>

others == <<call, procs, gen>>

(***************************************************************************)
(* Bounds of the model.                                                    *)
(***************************************************************************)
DecimalDigits == 2

MaxOps == 1

MaxCash == 600

MaxFaults == 1

MaxShareholders == 2

(***************************************************************************)
(* Decimal arithmetic.                                                     *)
(***************************************************************************)
Scale == 10 ^ DecimalDigits

Dec(n) == n * Scale

Abs(a) == IF a < 0 THEN -a ELSE a

Min(a, b) == IF a < b THEN a ELSE b

Max(a, b) == IF a > b THEN a ELSE b

RoundHalfEven(n, m) ==
    LET q == n \div m
        r == n % m
    IN  IF 2 * r < m THEN q
        ELSE IF 2 * r > m THEN q + 1
        ELSE IF q % 2 = 0 THEN q ELSE q + 1

Mul(a, b) == RoundHalfEven(a * b, Scale)

Div(a, b) ==
    IF b > 0 THEN RoundHalfEven(a * Scale, b)
    ELSE RoundHalfEven(-(a * Scale), -b)

\* Decimal.quantize(Decimal('1'), rounding='ROUND_UP'): away from zero.
RoundUp(a) ==
    IF a >= 0 THEN ((a + Scale - 1) \div Scale) * Scale
    ELSE -(((-a + Scale - 1) \div Scale) * Scale)

(***************************************************************************)
(* str.upper() and str.lower() on the strings the requests use.            *)
(***************************************************************************)
Upper(t) ==
    CASE t = "aapl" -> "AAPL"
      [] t = "msft" -> "MSFT"
      [] t = "shareholders" -> "SHAREHOLDERS"
      [] t = "portfolio" -> "PORTFOLIO"
      [] OTHER -> t

Lower(t) ==
    CASE t = "BUY" -> "buy"
      [] t = "SELL" -> "sell"
      [] OTHER -> t

(***************************************************************************)
(* handle_db_errors: the attempts of one wrapped repository call.  errs    *)
(* lists the exceptions the attempts raise, in order; an attempt past the  *)
(* end of errs returns normally.                                           *)
(***************************************************************************)
max_retries == 3

RECURSIVE wrapper(_, _)
wrapper(errs, attempt) ==
    IF attempt >= max_retries
    THEN [ok |-> FALSE, rolledBack |-> TRUE, calls |-> attempt]
    ELSE IF attempt + 1 > Len(errs)
    THEN [ok |-> TRUE, rolledBack |-> attempt > 0, calls |-> attempt + 1]
    ELSE IF errs[attempt + 1] = "OperationalError"
    THEN wrapper(errs, attempt + 1)
    ELSE [ok |-> FALSE, rolledBack |-> TRUE, calls |-> attempt + 1]

handle_db_errors(errs) == wrapper(errs, 0)

NoError == << >>

ErrorTraces ==
    { <<"OperationalError">>,
      <<"IntegrityError">> }

AllOk(S) == [s \in S |-> NoError]

RECURSIVE FaultPlans(_, _)
FaultPlans(S, k) ==
    IF k = 0 THEN {AllOk(S)}
    ELSE LET P == FaultPlans(S, k - 1)
         IN  P \cup {[p EXCEPT ![s] = t] : p \in P, s \in S, t \in ErrorTraces}

\* connection.rollback(): the open transaction is discarded, the working
\* rows are the committed rows c again.
Rolled(h, c, w) == IF h.rolledBack THEN c ELSE w

\* Variant: the rollback is not carried out.
manual_rollback_skipped(c, w) == w

\* DatabaseConnection.manual_rollback(db.connection)
manual_rollback(c, w) == c

(***************************************************************************)
(* The database after the firm row (id = 1) was created with its defaults. *)
(***************************************************************************)
EmptyFn == [x \in {} |-> 0]

InitDb ==
    [cash |-> 0, assets |-> 0, portfolio |-> EmptyFn,
     transactions |-> << >>, shareholders |-> EmptyFn]

NoTx == [ticker |-> "", shares |-> 0, price_per_share |-> 0, transaction_type |-> ""]

NoSh == [ownership |-> 0, investment |-> 0, email_ok |-> FALSE]

NoCalc ==
    [entitled |-> 0, profit |-> 0, remaining |-> 0, fee |-> 0,
     cash_withdrawal |-> 0, liquidation |-> 0, plans |-> << >>, steps |-> << >>]

NoLast ==
    [op |-> "init", tx |-> NoTx, sh |-> NoSh, id |-> 0, answers |-> 0,
     clean |-> TRUE, ret |-> "none", pre |-> InitDb, calc |-> NoCalc]

(***************************************************************************)
(* handle_create_shareholder                                               *)
(***************************************************************************)
ShareholderRequests ==
    { [ownership |-> 10, investment |-> 40, email_ok |-> TRUE],
      [ownership |-> 90, investment |-> 460, email_ok |-> TRUE],
      [ownership |-> 100, investment |-> 100, email_ok |-> TRUE],
      [ownership |-> 101, investment |-> 40, email_ok |-> TRUE],
      [ownership |-> 0, investment |-> 40, email_ok |-> TRUE],
      [ownership |-> 10, investment |-> -40, email_ok |-> TRUE],
      [ownership |-> 10, investment |-> 40, email_ok |-> FALSE] }

ShareholderSites == {"create_shareholder", "get_firm", "update_firm"}

NewShareholderId(w) ==
    CHOOSE i \in 1..(MaxShareholders + 1) :
        /\ i \notin DOMAIN w.shareholders
        /\ \A j \in 1..(i - 1) : j \in DOMAIN w.shareholders

AddRow(f, k, v) == [x \in DOMAIN f \cup {k} |-> IF x = k THEN v ELSE f[x]]

DropRow(f, k) == [x \in DOMAIN f \ {k} |-> f[x]]

\* Returns the rows the connection holds when the handler returns.
handle_create_shareholder(c, r, f) ==
    IF r.ownership = 0 \/ r.investment = 0 THEN c
    ELSE IF ~(0 < r.ownership /\ r.ownership <= 100) THEN c
    ELSE IF r.investment < 0 THEN c
    ELSE IF ~r.email_ok THEN c
    ELSE
    LET h1 == handle_db_errors(f["create_shareholder"])
        w0 == Rolled(h1, c, c)
        w1 == IF h1.ok
              THEN [w0 EXCEPT !.shareholders =
                        AddRow(@, NewShareholderId(w0),
                               [ownership |-> Dec(r.ownership),
                                investment |-> Dec(r.investment)])]
              ELSE w0
    IN  IF ~h1.ok THEN manual_rollback(c, w1)
        ELSE
        LET h2 == handle_db_errors(f["get_firm"])
            w2 == Rolled(h2, c, w1)
        IN  IF ~h2.ok THEN w2
            ELSE
            LET new_cash == w2.cash + Dec(r.investment)
                h3 == handle_db_errors(f["update_firm"])
                w3 == Rolled(h3, c, w2)
            IN  IF h3.ok THEN [w3 EXCEPT !.cash = new_cash] ELSE w3

CreateShareholder ==
    /\ ops < MaxOps
    /\ \E r \in ShareholderRequests, f \in FaultPlans(ShareholderSites, MaxFaults) :
          /\ Cardinality(DOMAIN db.shareholders) < MaxShareholders
          /\ db.cash + Dec(Max(r.investment, 0)) <= Dec(MaxCash)
          /\ db' = handle_create_shareholder(db, r, f)
          /\ last' = [NoLast EXCEPT !.op = "create_shareholder", !.sh = r,
                                    !.clean = (f = AllOk(ShareholderSites)),
                                    !.pre = db]
    /\ ops' = ops + 1
    /\ UNCHANGED others

(***************************************************************************)
(* PortfolioRepository.create_or_update_asset.  w holds the rows of the    *)
(* open transaction, c the committed rows; the result is the rows after    *)
(* the call and the value returned.  txid = 0 stands for                   *)
(* existing_transaction_id = None.                                         *)
(***************************************************************************)
AssetSites == {"get_position", "create_position", "update_transaction", "update_position"}

\* Variant: the average of a new position is set to the amount paid.
NewPosition_amount(actual_shares, transaction_value, price) ==
    [total_shares |-> actual_shares,
     total_invested |-> transaction_value,
     average_purchase_price |-> transaction_value,
     current_price |-> price,
     realized_profit_loss |-> 0]

NewPosition(actual_shares, transaction_value, price) ==
    [total_shares |-> actual_shares,
     total_invested |-> transaction_value,
     average_purchase_price |-> price,
     current_price |-> price,
     realized_profit_loss |-> 0]

\* Variant: the new average is the plain mean of the old average and the price.
BuyFields_unweighted(asset, new_shares, transaction_value, price) ==
    [asset EXCEPT !.total_shares = new_shares,
                  !.total_invested = asset.total_invested + transaction_value,
                  !.average_purchase_price = Div(asset.average_purchase_price + price, Dec(2)),
                  !.current_price = price]

BuyFields(asset, new_shares, transaction_value, price) ==
    LET new_total_invested == asset.total_invested + transaction_value
        new_average_price ==
            IF new_shares > 0 THEN Div(new_total_invested, new_shares)
            ELSE asset.average_purchase_price
    IN  [asset EXCEPT !.total_shares = new_shares,
                      !.total_invested = new_total_invested,
                      !.average_purchase_price = new_average_price,
                      !.current_price = price]

\* Variant: the sell removes the proceeds, not the proportional cost, from
\* total_invested.
SellFields_proceeds(asset, new_shares, shares_decimal, price) ==
    [asset EXCEPT !.total_shares = new_shares,
                  !.total_invested = asset.total_invested - Mul(shares_decimal, price),
                  !.realized_profit_loss =
                      asset.realized_profit_loss
                          + Mul(price - asset.average_purchase_price, shares_decimal),
                  !.current_price = price]

SellFields(asset, new_shares, shares_decimal, price) ==
    LET cost_basis == asset.average_purchase_price
        portion_sold == Div(shares_decimal, asset.total_shares)
        realized_profit_loss == Mul(price - cost_basis, shares_decimal)
        investment_reduction == Mul(asset.total_invested, portion_sold)
    IN  [asset EXCEPT !.total_shares = new_shares,
                      !.total_invested = asset.total_invested - investment_reduction,
                      !.realized_profit_loss = asset.realized_profit_loss + realized_profit_loss,
                      !.current_price = price]

Backfill(t, asset, shares_decimal, price) ==
    LET portion_sold == Div(shares_decimal, asset.total_shares)
    IN  [t EXCEPT !.cost_basis = asset.average_purchase_price,
                  !.realized_profit_loss = Mul(price - asset.average_purchase_price, shares_decimal),
                  !.portion_of_position = Mul(portion_sold, Dec(100)),
                  !.backfilled = TRUE]

\* Variant: the validation is missing.
Oversold_unchecked(asset, actual_shares) == FALSE

\* "Validate: Can't sell more than owned"
Oversold(asset, actual_shares) == asset.total_shares + actual_shares < 0

create_or_update_asset(c, w, ticker_in, shares, price, transaction_type, txid, f) ==
    LET ticker == Upper(ticker_in)
        shares_decimal == Abs(shares)
        transaction_value == Mul(shares_decimal, price)
        is_buy == Lower(transaction_type) = "buy"
        actual_shares == IF is_buy THEN shares_decimal ELSE -shares_decimal
        hg == handle_db_errors(f["get_position"])
        wg == Rolled(hg, c, w)
        found == hg.ok /\ ticker \in DOMAIN wg.portfolio
    IN  IF ~found
        THEN IF ~is_buy THEN [w |-> wg, res |-> FALSE]
             ELSE LET hc == handle_db_errors(f["create_position"])
                      wc == Rolled(hc, c, wg)
                  IN  IF hc.ok /\ ticker \notin DOMAIN wc.portfolio
                      THEN [w |-> [wc EXCEPT !.portfolio =
                                      AddRow(@, ticker,
                                             NewPosition(actual_shares, transaction_value, price))],
                            res |-> TRUE]
                      ELSE IF hc.ok
                      THEN [w |-> c, res |-> FALSE]     \* duplicate ticker: IntegrityError
                      ELSE [w |-> wc, res |-> FALSE]
        ELSE
        LET asset == wg.portfolio[ticker]
            new_shares == asset.total_shares + actual_shares
        IN  IF Oversold(asset, actual_shares) THEN [w |-> wg, res |-> FALSE]
            ELSE IF ~is_buy /\ asset.total_shares = 0
            THEN [w |-> wg, res |-> FALSE]              \* division by zero, caught
            ELSE
            LET fields == IF is_buy
                          THEN BuyFields(asset, new_shares, transaction_value, price)
                          ELSE SellFields(asset, new_shares, shares_decimal, price)
                ht == handle_db_errors(f["update_transaction"])
                wt == IF ~is_buy /\ txid # 0
                      THEN LET wr == Rolled(ht, c, wg)
                           IN  IF ht.ok /\ txid <= Len(wr.transactions)
                               THEN [wr EXCEPT !.transactions[txid] =
                                        Backfill(@, asset, shares_decimal, price)]
                               ELSE wr
                      ELSE wg
                hu == handle_db_errors(f["update_position"])
                wu == Rolled(hu, c, wt)
            IN  IF hu.ok /\ ticker \in DOMAIN wu.portfolio
                THEN [w |-> [wu EXCEPT !.portfolio[ticker] = fields], res |-> TRUE]
                ELSE [w |-> wu, res |-> FALSE]

(***************************************************************************)
(* handle_create_transaction.  The request carries the numbers the command *)
(* line parsed (whole amounts here).                                       *)
(***************************************************************************)
TxReq(t, s, p, ty) == [ticker |-> t, shares |-> s, price_per_share |-> p, transaction_type |-> ty]

TxRequests ==
    { TxReq("AAPL", 10, 20, "buy"),
      TxReq("AAPL", 4, 25, "sell"),
      TxReq("aapl", 1, 10, "BUY"),
      TxReq("aapl", 1, 25, "sell"),
      TxReq("MSFT", 15, 20, "buy"),
      TxReq("AAPL", 11, 25, "SELL"),
      TxReq("AAPL", 26, 20, "buy"),
      TxReq("AAPL", -1, 20, "sell"),
      TxReq("AAPL", -1, 20, "buy"),
      TxReq("AAPL", 0, 20, "buy"),
      TxReq("MSFT", 1, -5, "buy"),
      TxReq("AAPL", 1, 20, "hold") }

DirectRequests ==
    { TxReq("AAPL", 4, 25, "sell"),
      TxReq("AAPL", 11, 25, "SELL"),
      TxReq("aapl", 1, 10, "BUY"),
      TxReq("MSFT", 1, 20, "sell") }

TransactionSites ==
    {"get_asset_by_ticker", "get_firm_funds", "create_transaction", "get_firm", "update_firm"}
        \cup AssetSites

NewTransaction(ticker, shares, price, transaction_type) ==
    [ticker |-> Upper(ticker),
     shares |-> Abs(shares),
     price_per_share |-> price,
     transaction_type |-> Lower(transaction_type),
     cost_basis |-> 0, realized_profit_loss |-> 0, portion_of_position |-> 0,
     backfilled |-> FALSE]

Rejected(c) == [w |-> c, accepted |-> FALSE, portfolio_success |-> FALSE, firm_success |-> FALSE]

\* Variant: only the existence of the position is checked.
InsufficientShares_existence(c, ticker, shares_value) == ticker \notin DOMAIN c.portfolio

\* Variant: a buy that spends all the cash is refused.
InsufficientFunds_strict(c, cost) == c.cash <= cost

\* "if not asset or asset.total_shares < shares_value": the lookup uses the
\* ticker as it was typed.
InsufficientShares(c, ticker, shares_value) ==
    \/ ticker \notin DOMAIN c.portfolio
    \/ c.portfolio[ticker].total_shares < shares_value

\* "if not firm_data or firm_data.cash < shares_value * price_per_share_value"
InsufficientFunds(c, cost) == c.cash < cost

\* Step 3 of handle_create_transaction, after the position call a: the Firm
\* row is read and its cash is written as firm.cash + cash_change.
UpdateFirmCash(c, f, cost, transaction_type_value, a) ==
    LET hg == handle_db_errors(f["get_firm"])
        wg == Rolled(hg, c, a.w)
    IN  IF ~hg.ok      \* firm is None: AttributeError, manual_rollback
        THEN [w |-> manual_rollback(c, wg), accepted |-> TRUE,
              portfolio_success |-> a.res, firm_success |-> FALSE]
        ELSE
        LET cash_change == cost * (IF transaction_type_value = "sell" THEN 1 ELSE -1)
            hu == handle_db_errors(f["update_firm"])
            wu == Rolled(hu, c, wg)
        IN  [w |-> IF hu.ok THEN [wu EXCEPT !.cash = wg.cash + cash_change] ELSE wu,
             accepted |-> TRUE, portfolio_success |-> a.res, firm_success |-> hu.ok]

handle_create_transaction(c, r, f) ==
    IF r.ticker = "" \/ r.shares = 0 \/ r.price_per_share = 0 \/ r.transaction_type = ""
    THEN Rejected(c)
    ELSE
    LET shares_value == Dec(r.shares)
        price_per_share_value == Dec(r.price_per_share)
        transaction_type_value == Lower(r.transaction_type)
        cost == Mul(shares_value, price_per_share_value)
        ha == handle_db_errors(f["get_asset_by_ticker"])
        hf == handle_db_errors(f["get_firm_funds"])
    IN  IF transaction_type_value \notin {"buy", "sell"} THEN Rejected(c)
        ELSE IF /\ transaction_type_value = "sell"
                /\ (~ha.ok \/ InsufficientShares(c, r.ticker, shares_value))
        THEN Rejected(c)
        ELSE IF transaction_type_value = "buy" /\ (~hf.ok \/ InsufficientFunds(c, cost))
        THEN Rejected(c)
        ELSE
        LET h1 == handle_db_errors(f["create_transaction"])
            w1 == [c EXCEPT !.transactions =
                      Append(@, NewTransaction(r.ticker, shares_value, price_per_share_value,
                                               transaction_type_value))]
        IN  IF ~h1.ok THEN [Rejected(manual_rollback(c, c)) EXCEPT !.accepted = TRUE]
            ELSE
            LET transaction_id == Len(w1.transactions)
            IN  UpdateFirmCash(c, f, cost, transaction_type_value,
                    create_or_update_asset(c, w1, r.ticker,
                        IF transaction_type_value = "buy" THEN shares_value ELSE -shares_value,
                        price_per_share_value, transaction_type_value, transaction_id, f))

RetOf(x) ==
    IF ~x.accepted THEN "rejected"
    ELSE IF x.portfolio_success /\ x.firm_success THEN "done"
    ELSE "failed"

CreateTransaction ==
    /\ ops < MaxOps
    /\ \E r \in TxRequests, f \in FaultPlans(TransactionSites, MaxFaults) :
          LET x == handle_create_transaction(db, r, f)
          IN  /\ x.w.cash <= Dec(MaxCash)
              /\ db' = x.w
              /\ last' = [NoLast EXCEPT !.op = "create_transaction", !.tx = r,
                                        !.clean = (f = AllOk(TransactionSites)),
                                        !.ret = RetOf(x), !.pre = db]
    /\ ops' = ops + 1
    /\ UNCHANGED others

\* A caller other than handle_create_transaction applies one buy or sell to
\* a position and the connection context commits it.
DirectAsset ==
    /\ ops < MaxOps
    /\ \E r \in DirectRequests, f \in FaultPlans(AssetSites, MaxFaults) :
          LET a == create_or_update_asset(db, db, r.ticker, Dec(r.shares),
                                          Dec(r.price_per_share), r.transaction_type, 0, f)
          IN  /\ Lower(r.transaction_type) \in {"buy", "sell"}
              /\ db' = a.w
              /\ last' = [NoLast EXCEPT !.op = "create_or_update_asset", !.tx = r,
                                        !.clean = (f = AllOk(AssetSites)),
                                        !.ret = IF a.res THEN "done" ELSE "failed",
                                        !.pre = db]
    /\ ops' = ops + 1
    /\ UNCHANGED others

(***************************************************************************)
(* handle_update_portfolio_assets_data: FIRM.assets becomes the sum of the *)
(* PORTFOLIO total_value column.  It is the only write of its run, so a    *)
(* rollback inside it leaves the committed rows.                           *)
(***************************************************************************)
TickerOrder == <<"AAPL", "MSFT">>

TotalValue(asset) == Mul(asset.total_shares, asset.current_price)

RECURSIVE SumTotalValue(_, _)
SumTotalValue(portfolio, i) ==
    IF i > Len(TickerOrder) THEN 0
    ELSE (IF TickerOrder[i] \in DOMAIN portfolio
          THEN TotalValue(portfolio[TickerOrder[i]]) ELSE 0)
         + SumTotalValue(portfolio, i + 1)

handle_update_portfolio_assets_data(c) ==
    [c EXCEPT !.assets = SumTotalValue(c.portfolio, 1)]

UpdatePortfolioAssets ==
    /\ ops < MaxOps
    /\ db' = handle_update_portfolio_assets_data(db)
    /\ db' # db
    /\ last' = [NoLast EXCEPT !.op = "update_portfolio_assets", !.pre = db]
    /\ ops' = ops + 1
    /\ UNCHANGED others

(***************************************************************************)
(* handle_delete_shareholder_v2.  decline is the number of the prompt the  *)
(* operator answers "n" (0: every prompt is answered "y"):                 *)
(* 1 proceed, 2 calculations, 3 liquidation, 4 liquidation plan, 5 final.  *)
(***************************************************************************)
\* Variant: a fee rate of ten percent.
MANAGEMENT_FEE_RATE_tenth == Div(Dec(10), Dec(100))

MANAGEMENT_FEE_RATE == Div(Dec(2), Dec(100))

\* Variant: no fee is charged.
calculate_management_fee_waived(profit) == 0

calculate_management_fee(profit) == Mul(Max(0, profit), MANAGEMENT_FEE_RATE)

WithdrawalSites ==
    {"get_shareholder", "get_firm", "get_all", "update_firm", "delete_shareholder",
     "create_transaction_1", "get_position_1", "update_position_1",
     "create_transaction_2", "get_position_2", "update_position_2"}

LineFaults(f, i) ==
    IF i = 1
    THEN [get_position |-> f["get_position_1"], create_position |-> NoError,
          update_transaction |-> NoError, update_position |-> f["update_position_1"]]
    ELSE [get_position |-> f["get_position_2"], create_position |-> NoError,
          update_transaction |-> NoError, update_position |-> f["update_position_2"]]

CreateFault(f, i) == IF i = 1 THEN f["create_transaction_1"] ELSE f["create_transaction_2"]

Priced(asset) == asset.current_price # 0 /\ asset.total_shares > 0

AssetValue(asset) ==
    IF Priced(asset) THEN Mul(asset.total_shares, asset.current_price) ELSE 0

RECURSIVE SumAssetValue(_, _)
SumAssetValue(portfolio, i) ==
    IF i > Len(TickerOrder) THEN 0
    ELSE (IF TickerOrder[i] \in DOMAIN portfolio
          THEN AssetValue(portfolio[TickerOrder[i]]) ELSE 0)
         + SumAssetValue(portfolio, i + 1)

Listed(asset) == ~(asset.current_price = 0 \/ asset.total_shares = 0)

LiquidationLine(ticker, asset, remaining_value, total_assets_value) ==
    LET liquidation_proportion == Div(remaining_value, total_assets_value)
        exact_shares_to_sell == Mul(asset.total_shares, liquidation_proportion)
        whole_shares_to_sell == Min(RoundUp(exact_shares_to_sell), asset.total_shares)
    IN  [ticker |-> ticker,
         exact_shares |-> exact_shares_to_sell,
         whole_shares |-> whole_shares_to_sell,
         price |-> asset.current_price,
         value |-> Mul(whole_shares_to_sell, asset.current_price)]

RECURSIVE LiquidationPlans(_, _, _, _)
LiquidationPlans(portfolio, i, remaining_value, total_assets_value) ==
    IF i > Len(TickerOrder) THEN << >>
    ELSE LET t == TickerOrder[i]
             rest == LiquidationPlans(portfolio, i + 1, remaining_value, total_assets_value)
         IN  IF t \in DOMAIN portfolio /\ Listed(portfolio[t])
             THEN LET line == LiquidationLine(t, portfolio[t], remaining_value,
                                              total_assets_value)
                  IN  IF line.whole_shares > 0 THEN <<line>> \o rest ELSE rest
             ELSE rest

RECURSIVE SumValues(_)
SumValues(plans) ==
    IF plans = << >> THEN 0 ELSE Head(plans).value + SumValues(Tail(plans))

\* The loop of lines 232-257: one sell Transaction and one position sell per
\* line; the first failure rolls back and ends the run.
RECURSIVE ExecutePlans(_, _, _, _, _)
RECURSIVE AfterSell(_, _, _, _, _)
ExecutePlans(c, w, plans, i, f) ==
    IF i > Len(plans) THEN [w |-> w, ok |-> TRUE, sold |-> Len(plans)]
    ELSE
    LET plan == plans[i]
        ht == handle_db_errors(CreateFault(f, i))
        wt == Rolled(ht, c, w)
    IN  IF ~ht.ok THEN [w |-> manual_rollback(c, wt), ok |-> FALSE, sold |-> i - 1]
        ELSE
        LET w1 == [wt EXCEPT !.transactions =
                      Append(@, NewTransaction(plan.ticker, plan.whole_shares,
                                               plan.price, "sell"))]
        IN  AfterSell(c, plans, i, f,
                      create_or_update_asset(c, w1, plan.ticker, -plan.whole_shares,
                                             plan.price, "sell", 0, LineFaults(f, i)))

\* Lines 253-257: a failed position sell rolls back and ends the run, a
\* successful one is followed by the next line of the plan.
AfterSell(c, plans, i, f, a) ==
    IF ~a.res THEN [w |-> manual_rollback(c, a.w), ok |-> FALSE, sold |-> i - 1]
    ELSE ExecutePlans(c, a.w, plans, i + 1, f)

\* Variant: a stopped run reports completion.
Stopped_reported(c, calc) == [w |-> c, ret |-> TRUE, calc |-> calc]

Stopped(c, calc) == [w |-> c, ret |-> FALSE, calc |-> calc]

\* The sub-steps that returned success, in the order of lines 223-270: the
\* Firm update, one entry per liquidation line whose Transaction and position
\* sell both succeeded, the deletion of the Shareholder row.
WithSteps(calc, sold, deleted) ==
    [calc EXCEPT !.steps = <<"update_firm">> \o [k \in 1..sold |-> "sell"]
                             \o (IF deleted THEN <<"delete_shareholder">> ELSE << >>)]

\* Lines 259-275, after the liquidation loop x: the last prompt, the deletion
\* of the Shareholder row and the commit.
CompleteWithdrawal(c, shareholder_id, decline, f, calc, x) ==
    IF ~x.ok THEN Stopped(x.w, WithSteps(calc, x.sold, FALSE))
    ELSE IF decline = 5
    THEN Stopped(manual_rollback(c, x.w), WithSteps(calc, x.sold, FALSE))
    ELSE
    LET hd == handle_db_errors(f["delete_shareholder"])
        wd == Rolled(hd, c, x.w)
    IN  IF hd.ok /\ shareholder_id \in DOMAIN wd.shareholders
        THEN [w |-> [wd EXCEPT !.shareholders = DropRow(@, shareholder_id)],
              ret |-> TRUE, calc |-> WithSteps(calc, x.sold, TRUE)]
        ELSE Stopped(manual_rollback(c, wd), WithSteps(calc, x.sold, FALSE))

handle_delete_shareholder_v2(c, shareholder_id, decline, f) ==
    LET hs == handle_db_errors(f["get_shareholder"])
    IN  IF ~hs.ok \/ shareholder_id \notin DOMAIN c.shareholders THEN Stopped(c, NoCalc)
        ELSE IF decline = 1 THEN Stopped(c, NoCalc)
        ELSE
        LET shareholder == c.shareholders[shareholder_id]
            hf == handle_db_errors(f["get_firm"])
        IN  IF ~hf.ok                               \* firm is None: AttributeError
            THEN Stopped(manual_rollback(c, c), NoCalc)
            ELSE
            LET total_firm_value == c.cash + c.assets
                shareholder_value ==
                    Mul(total_firm_value, Div(shareholder.ownership, Dec(100)))
                is_profit == shareholder_value > shareholder.investment
                profit == shareholder_value - shareholder.investment
                cash_first == Min(c.cash, shareholder_value)
                remaining_value == shareholder_value - cash_first
                hga == handle_db_errors(f["get_all"])
                total_assets_value == SumAssetValue(c.portfolio, 1)
                anyListed == \E t \in DOMAIN c.portfolio : Listed(c.portfolio[t])
                liquidation_plans ==
                    IF remaining_value > 0
                    THEN LiquidationPlans(c.portfolio, 1, remaining_value, total_assets_value)
                    ELSE << >>
                total_liquidation_value == SumValues(liquidation_plans)
                management_fee ==
                    IF is_profit THEN calculate_management_fee(profit) ELSE 0
                cash_withdrawal == cash_first - management_fee
                calc == [entitled |-> shareholder_value,
                         profit |-> IF is_profit THEN profit ELSE 0,
                         remaining |-> remaining_value,
                         fee |-> management_fee,
                         cash_withdrawal |-> cash_withdrawal,
                         liquidation |-> total_liquidation_value,
                         plans |-> liquidation_plans,
                         steps |-> << >>]
            IN  IF decline = 2 THEN Stopped(manual_rollback(c, c), NoCalc)
                ELSE IF remaining_value > 0 /\ decline = 3
                THEN Stopped(manual_rollback(c, c), NoCalc)
                ELSE IF remaining_value > 0 /\ ~hga.ok   \* assets is None: TypeError
                THEN Stopped(manual_rollback(c, c), NoCalc)
                ELSE IF remaining_value > 0 /\ anyListed /\ total_assets_value = 0
                THEN Stopped(manual_rollback(c, c), NoCalc)   \* division by zero
                ELSE IF remaining_value > 0 /\ decline = 4
                THEN Stopped(manual_rollback(c, c), calc)
                ELSE
                LET updated_cash == c.cash - cash_withdrawal
                    updated_assets == c.assets - total_liquidation_value
                    hu == handle_db_errors(f["update_firm"])
                    wu == [c EXCEPT !.cash = updated_cash, !.assets = updated_assets]
                IN  IF ~hu.ok THEN Stopped(manual_rollback(c, c), calc)
                    ELSE
                    CompleteWithdrawal(c, shareholder_id, decline, f, calc,
                                       ExecutePlans(c, wu, liquidation_plans, 1, f))

\* repository.delete(entity_id) on the repository of a table: one DELETE by
\* primary key, True when a row was deleted.  Position rows are numbered in
\* TickerOrder.
PlainDelete(c, table, entity_id, errs) ==
    LET h == handle_db_errors(errs)
        ticker == IF entity_id \in 1..Len(TickerOrder) THEN TickerOrder[entity_id] ELSE ""
    IN  IF ~h.ok THEN [w |-> c, ret |-> FALSE, calc |-> NoCalc]
        ELSE IF Upper(table) = "SHAREHOLDERS" /\ entity_id \in DOMAIN c.shareholders
        THEN [w |-> [c EXCEPT !.shareholders = DropRow(@, entity_id)],
              ret |-> TRUE, calc |-> NoCalc]
        ELSE IF Upper(table) = "PORTFOLIO" /\ ticker \in DOMAIN c.portfolio
        THEN [w |-> [c EXCEPT !.portfolio = DropRow(@, ticker)],
              ret |-> TRUE, calc |-> NoCalc]
        ELSE [w |-> c, ret |-> FALSE, calc |-> NoCalc]

\* Variant: the table name is compared as given.
handle_delete_by_id_exact(c, table, entity_id, decline, f) ==
    IF table = "SHAREHOLDERS"
    THEN handle_delete_shareholder_v2(c, entity_id, decline, f)
    ELSE PlainDelete(c, table, entity_id, f["delete_shareholder"])

handle_delete_by_id(c, table, entity_id, decline, f) ==
    IF Upper(table) = "SHAREHOLDERS"
    THEN handle_delete_shareholder_v2(c, entity_id, decline, f)
    ELSE PlainDelete(c, table, entity_id, f["delete_shareholder"])

DeleteSites == {"delete_shareholder"}

\* The delete command's requests: a shareholder withdrawal with its prompts'
\* answers, or the deletion of a position row, whose only database call is
\* the repository's delete.
DeleteRequests ==
    {[table |-> "shareholders", id |-> id, decline |-> decline, f |-> f] :
        id \in 1..MaxShareholders, decline \in 0..5,
        f \in FaultPlans(WithdrawalSites, MaxFaults)}
    \cup
    {[table |-> "portfolio", id |-> id, decline |-> 0,
      f |-> [s \in WithdrawalSites |-> IF s \in DeleteSites THEN g[s] ELSE NoError]] :
        id \in 1..Len(TickerOrder), g \in FaultPlans(DeleteSites, MaxFaults)}

DeleteById ==
    /\ ops < MaxOps
    /\ \E r \in DeleteRequests :
          LET x == handle_delete_by_id(db, r.table, r.id, r.decline, r.f)
          IN  /\ db' = x.w
              /\ last' = [NoLast EXCEPT !.op = IF r.table = "shareholders"
                                               THEN "delete_shareholder"
                                               ELSE "delete_by_id",
                                        !.id = r.id,
                                        !.answers = r.decline,
                                        !.clean = (r.f = AllOk(WithdrawalSites)),
                                        !.ret = IF x.ret THEN "true" ELSE "false",
                                        !.pre = db, !.calc = x.calc]
    /\ ops' = ops + 1
    /\ UNCHANGED others

(***************************************************************************)
(* handle_update_shareholder and handle_update_transaction: one field of   *)
(* one row is set to the value given as id:key=value.  The numeric fields  *)
(* are parsed by float() and written as they are.                          *)
(***************************************************************************)
UpdateSites == {"update"}

\* BaseRepository.update of one row: the row is written when it exists.
UpdateRow(rows, ids, entity_id, key, value) ==
    IF entity_id \in ids THEN [rows EXCEPT ![entity_id][key] = value] ELSE rows

ShareholderFields == {"ownership", "investment"}

ShareholderUpdates ==
    [id : 1..MaxShareholders, key : ShareholderFields \cup {"cash"},
     value : {0, 50, 100, 150}]

handle_update_shareholder(c, shareholder_id, key, value, errs) ==
    IF key \notin ShareholderFields THEN c
    ELSE LET h == handle_db_errors(errs)
             w == Rolled(h, c, c)
         IN  IF h.ok
             THEN [w EXCEPT !.shareholders =
                       UpdateRow(@, DOMAIN w.shareholders, shareholder_id, key, Dec(value))]
             ELSE w

UpdateShareholder ==
    /\ ops < MaxOps
    /\ \E r \in ShareholderUpdates, f \in FaultPlans(UpdateSites, MaxFaults) :
          /\ db' = handle_update_shareholder(db, r.id, r.key, r.value, f["update"])
          /\ last' = [NoLast EXCEPT !.op = "update_shareholder", !.id = r.id,
                                    !.sh = r, !.clean = (f = AllOk(UpdateSites)),
                                    !.pre = db]
    /\ ops' = ops + 1
    /\ UNCHANGED others

TransactionFields == {"ticker", "shares", "price_per_share", "transaction_type"}

MaxTransactionId == 2

TransactionUpdates ==
    [id : 1..MaxTransactionId,
     kv : { <<"shares", Dec(50)>>, <<"price_per_share", Dec(1)>>, <<"ticker", "MSFT">>,
            <<"transaction_type", "buy">>, <<"transaction_type", "hold">>,
            <<"notes", "edited">> }]

handle_update_transaction(c, transaction_id, key, value, errs) ==
    IF key \notin TransactionFields THEN c
    ELSE IF key = "transaction_type" /\ Lower(value) \notin {"buy", "sell"} THEN c
    ELSE LET h == handle_db_errors(errs)
             w == Rolled(h, c, c)
         IN  IF h.ok
             THEN [w EXCEPT !.transactions =
                       UpdateRow(@, DOMAIN w.transactions, transaction_id, key, value)]
             ELSE w

UpdateTransaction ==
    /\ ops < MaxOps
    /\ \E r \in TransactionUpdates, f \in FaultPlans(UpdateSites, MaxFaults) :
          /\ db' = handle_update_transaction(db, r.id, r.kv[1], r.kv[2], f["update"])
          /\ last' = [NoLast EXCEPT !.op = "update_transaction", !.id = r.id,
                                    !.clean = (f = AllOk(UpdateSites)),
                                    !.pre = db]
    /\ ops' = ops + 1
    /\ UNCHANGED others

(***************************************************************************)
(* Initial rows: the database after the firm row was created, and the      *)
(* databases that error-free runs of the handlers above build from it.     *)
(***************************************************************************)
Ok(S) == AllOk(S)

SeedFunded ==
    handle_create_shareholder(
        handle_create_shareholder(InitDb,
            [ownership |-> 10, investment |-> 40, email_ok |-> TRUE], Ok(ShareholderSites)),
        [ownership |-> 90, investment |-> 460, email_ok |-> TRUE], Ok(ShareholderSites))

SeedHolding ==
    handle_create_transaction(SeedFunded, TxReq("AAPL", 10, 20, "buy"), Ok(TransactionSites)).w

SeedInvested ==
    handle_create_transaction(SeedHolding, TxReq("MSFT", 15, 20, "buy"), Ok(TransactionSites)).w

SeedSynced == handle_update_portfolio_assets_data(SeedInvested)

SeedSold ==
    handle_create_transaction(SeedHolding, TxReq("AAPL", 4, 25, "sell"), Ok(TransactionSites)).w

\* The whole AAPL position is sold after Firm.assets was last refreshed:
\* Firm.assets still counts the 200 of the position that is now empty.
SeedEmptied ==
    handle_create_transaction(handle_update_portfolio_assets_data(SeedHolding),
                              TxReq("AAPL", 10, 20, "sell"), Ok(TransactionSites)).w

\* One of two positions is sold after Firm.assets was last refreshed:
\* Firm.assets is 500 while the positions left are worth 300.
SeedStale ==
    handle_create_transaction(SeedSynced, TxReq("AAPL", 10, 20, "sell"),
                              Ok(TransactionSites)).w

\* Two equal shareholders put in 250 each; 30 MSFT are bought at 10 and
\* Firm.assets is refreshed: cash 200, assets 300.
SeedHalves ==
    handle_update_portfolio_assets_data(
        handle_create_transaction(
            handle_create_shareholder(
                handle_create_shareholder(InitDb,
                    [ownership |-> 50, investment |-> 250, email_ok |-> TRUE],
                    Ok(ShareholderSites)),
                [ownership |-> 50, investment |-> 250, email_ok |-> TRUE],
                Ok(ShareholderSites)),
            TxReq("MSFT", 30, 10, "buy"), Ok(TransactionSites)).w)

SeedDbs ==
    {InitDb, SeedFunded, SeedHolding, SeedInvested, SeedSynced, SeedSold, SeedEmptied,
     SeedStale, SeedHalves}

Idle == [pc |-> "idle"]

Init ==
    /\ db \in SeedDbs
    /\ last = [NoLast EXCEPT !.pre = db]
    /\ ops = 0
    /\ call = Idle
    /\ procs = Idle
    /\ gen = Idle

Next ==
    \/ CreateShareholder
    \/ CreateTransaction
    \/ DirectAsset
    \/ UpdatePortfolioAssets
    \/ DeleteById

Spec == Init /\ [][Next]_vars

(***************************************************************************)
(* The shareholder register and the transaction records under the create,  *)
(* update and delete commands.                                             *)
(***************************************************************************)
SeedSole ==
    handle_create_shareholder(InitDb,
        [ownership |-> 100, investment |-> 100, email_ok |-> TRUE], Ok(ShareholderSites))

RecordDbs == {InitDb, SeedSole, SeedFunded, SeedHolding, SeedSold, SeedSynced}

InitRecords ==
    /\ db \in RecordDbs
    /\ last = [NoLast EXCEPT !.pre = db]
    /\ ops = 0
    /\ call = Idle
    /\ procs = Idle
    /\ gen = Idle

NextRecords ==
    \/ CreateShareholder
    \/ UpdateShareholder
    \/ CreateTransaction
    \/ UpdateTransaction
    \/ DeleteById

SpecRecords == InitRecords /\ [][NextRecords]_vars

(***************************************************************************)
(* What the last run was, for the properties below.                        *)
(***************************************************************************)
IsTx == last.op = "create_transaction"

IsAssetCall == last.op = "create_or_update_asset"

IsWithdrawal == last.op = "delete_shareholder"

ReqTicker == Upper(last.tx.ticker)

ReqType == Lower(last.tx.transaction_type)

ReqShares == Dec(last.tx.shares)

ReqPrice == Dec(last.tx.price_per_share)

ReqCost == Dec(last.tx.shares * last.tx.price_per_share)

ValidRequest ==
    /\ last.tx.shares > 0
    /\ last.tx.price_per_share > 0
    /\ ReqType \in {"buy", "sell"}

Held(d, t) == IF t \in DOMAIN d.portfolio THEN d.portfolio[t].total_shares ELSE 0

Invested(d, t) == IF t \in DOMAIN d.portfolio THEN d.portfolio[t].total_invested ELSE 0

OneMoreTransaction ==
    /\ Len(db.transactions) = Len(last.pre.transactions) + 1
    /\ SubSeq(db.transactions, 1, Len(last.pre.transactions)) = last.pre.transactions
    /\ db.transactions[Len(db.transactions)].ticker = ReqTicker
    /\ db.transactions[Len(db.transactions)].shares = ReqShares
    /\ db.transactions[Len(db.transactions)].transaction_type = ReqType

PositionMoved ==
    /\ ReqTicker \in DOMAIN db.portfolio
    /\ Held(db, ReqTicker) =
          Held(last.pre, ReqTicker) + (IF ReqType = "buy" THEN ReqShares ELSE -ReqShares)

CashMoved ==
    db.cash = last.pre.cash + (IF ReqType = "sell" THEN ReqCost ELSE -ReqCost)

(***************************************************************************)
(* C1: after a valid buy or sell request handled by                        *)
(* handle_create_transaction the committed rows hold all three effects     *)
(* (one new Transaction, the position update, the cash change) or none.    *)
(***************************************************************************)
C1_AllOrNothing ==
    (IsTx /\ ValidRequest) =>
        \/ db = last.pre
        \/ OneMoreTransaction /\ PositionMoved /\ CashMoved

(***************************************************************************)
(* C2: when handle_delete_shareholder_v2 returns False the committed Firm, *)
(* PortfolioPosition, Transaction and Shareholder rows are those before    *)
(* the call.                                                               *)
(***************************************************************************)
C2_FalseLeavesRows == (IsWithdrawal /\ last.ret = "false") => db = last.pre

\* The final prompt is declined after the Firm update and two liquidation
\* sells were applied.
C2_Witness ==
    /\ IsWithdrawal /\ last.ret = "false" /\ last.answers = 5 /\ last.clean
    /\ last.id \in DOMAIN last.pre.shareholders
    /\ Len(last.calc.plans) = 2
    /\ db = last.pre

(***************************************************************************)
(* C3: when handle_delete_shareholder_v2 returns True the committed rows   *)
(* hold every sub-step: cash less the final cash_withdrawal, assets less   *)
(* the liquidation value, one sell Transaction and one position sell per   *)
(* liquidation line, and no Shareholder row; also when a repository call   *)
(* was retried after an OperationalError.                                  *)
(***************************************************************************)
LineApplied(i) ==
    LET plan == last.calc.plans[i]
        t == db.transactions[Len(last.pre.transactions) + i]
    IN  /\ t.ticker = plan.ticker /\ t.shares = plan.whole_shares
        /\ t.transaction_type = "sell"
        /\ Held(db, plan.ticker) = Held(last.pre, plan.ticker) - plan.whole_shares

C3_TrueHoldsEveryStep ==
    (IsWithdrawal /\ last.ret = "true") =>
        /\ db.cash = last.pre.cash - last.calc.cash_withdrawal
        /\ db.assets = last.pre.assets - last.calc.liquidation
        /\ last.id \notin DOMAIN db.shareholders
        /\ Len(db.transactions) = Len(last.pre.transactions) + Len(last.calc.plans)
        /\ \A i \in 1..Len(last.calc.plans) : LineApplied(i)

\* A valid buy or sell that every repository call carried out at its first
\* attempt, leaving shares in the position.
AppliedToPosition ==
    /\ IsTx \/ IsAssetCall
    /\ ValidRequest /\ last.ret = "done" /\ last.clean
    /\ Held(db, ReqTicker) > 0

Oversell ==
    /\ IsTx \/ IsAssetCall
    /\ ReqType = "sell" /\ last.tx.shares > 0
    /\ ReqShares > Held(last.pre, ReqTicker)

C5_OversellChangesNothing == Oversell => (db = last.pre /\ last.ret # "done")

C5_Witness ==
    /\ Oversell /\ IsAssetCall /\ last.clean
    /\ Held(last.pre, ReqTicker) > 0
    /\ db = last.pre

(***************************************************************************)
(* C6: Firm.cash >= 0 in every committed state.                            *)
(***************************************************************************)
C6_CashNonNegative == db.cash >= 0

(***************************************************************************)
(* C7: every PortfolioPosition has total_shares >= 0 in every committed    *)
(* state.                                                                  *)
(***************************************************************************)
C7_SharesNonNegative == \A t \in DOMAIN db.portfolio : db.portfolio[t].total_shares >= 0

\* A withdrawal that sold shares of two positions.
C7_Witness ==
    /\ IsWithdrawal /\ last.ret = "true" /\ last.clean
    /\ Len(last.calc.plans) = 2
    /\ \A i \in 1..2 : Held(db, last.calc.plans[i].ticker) <
                          Held(last.pre, last.calc.plans[i].ticker)

(***************************************************************************)
(* C8: a transaction request with shares <= 0, price_per_share <= 0 or a   *)
(* type other than buy/sell changes nothing.                               *)
(***************************************************************************)
C8_InvalidRequestRejected == (IsTx /\ ~ValidRequest) => db = last.pre

(***************************************************************************)
(* C9: a buy whose cost exceeds Firm.cash is rejected and changes nothing; *)
(* a buy whose cost equals Firm.cash is accepted.                          *)
(***************************************************************************)
C9_FundsCheck ==
    (IsTx /\ ValidRequest /\ ReqType = "buy") =>
        /\ ReqCost > last.pre.cash => (db = last.pre /\ last.ret = "rejected")
        /\ (ReqCost = last.pre.cash /\ last.clean) =>
              (last.ret = "done" /\ db.cash = 0 /\ OneMoreTransaction /\ PositionMoved)

C9_Witness ==
    /\ IsTx /\ ValidRequest /\ ReqType = "buy" /\ last.clean
    /\ ReqCost = last.pre.cash /\ ReqCost > 0
    /\ last.ret = "done" /\ db.cash = 0

(***************************************************************************)
(* C10: a successful buy of s shares at price p gives total_shares = T + s,*)
(* total_invested = I + s*p, average_purchase_price = (I + s*p)/(T + s)    *)
(* (T = I = 0 and realized_profit_loss = 0 for a new position) and lowers  *)
(* Firm.cash by exactly s*p.                                               *)
(***************************************************************************)
C10_BuyEffect ==
    (IsTx /\ ValidRequest /\ ReqType = "buy" /\ last.ret = "done" /\ last.clean) =>
        LET T == Held(last.pre, ReqTicker)
            I == Invested(last.pre, ReqTicker)
            new == db.portfolio[ReqTicker]
        IN  /\ new.total_shares = T + ReqShares
            /\ new.total_invested = I + ReqCost
            /\ new.average_purchase_price = Div(I + ReqCost, T + ReqShares)
            /\ ReqTicker \notin DOMAIN last.pre.portfolio => new.realized_profit_loss = 0
            /\ db.cash = last.pre.cash - ReqCost

\* Buying 10 at 20 into an empty position.
C10_Witness ==
    /\ IsTx /\ last.ret = "done" /\ last.clean
    /\ last.tx = TxReq("AAPL", 10, 20, "buy")
    /\ "AAPL" \notin DOMAIN last.pre.portfolio
    /\ db.portfolio["AAPL"].total_shares = Dec(10)
    /\ db.portfolio["AAPL"].average_purchase_price = Dec(20)
    /\ db.cash = last.pre.cash - Dec(200)

(***************************************************************************)
(* C11: a successful sell of s <= T shares at price p from a position with *)
(* T shares and average cost a adds (p - a)*s to realized_profit_loss,     *)
(* sets total_shares to T - s and total_invested to                        *)
(* total_invested*(T - s)/T, leaves average_purchase_price unchanged and   *)
(* raises Firm.cash by exactly s*p.                                        *)
(***************************************************************************)
C11_SellEffect ==
    (IsTx /\ ValidRequest /\ ReqType = "sell" /\ last.ret = "done" /\ last.clean) =>
        LET old == last.pre.portfolio[ReqTicker]
            new == db.portfolio[ReqTicker]
            T == old.total_shares
        IN  /\ ReqShares <= T
            /\ new.realized_profit_loss =
                  old.realized_profit_loss
                      + Mul(ReqPrice - old.average_purchase_price, ReqShares)
            /\ new.total_shares = T - ReqShares
            /\ new.total_invested = Mul(old.total_invested, Div(T - ReqShares, T))
            /\ new.average_purchase_price = old.average_purchase_price
            /\ db.cash = last.pre.cash + ReqCost

\* Selling 4 at 25 from 10 shares bought at 20.
C11_Witness ==
    /\ IsTx /\ last.ret = "done" /\ last.clean
    /\ last.tx = TxReq("AAPL", 4, 25, "sell")
    /\ last.pre.portfolio["AAPL"].total_shares = Dec(10)
    /\ last.pre.portfolio["AAPL"].average_purchase_price = Dec(20)
    /\ db.portfolio["AAPL"].realized_profit_loss = Dec(20)
    /\ db.portfolio["AAPL"].total_shares = Dec(6)
    /\ db.portfolio["AAPL"].total_invested = Dec(120)
    /\ db.cash = last.pre.cash + Dec(100)

(***************************************************************************)
(* C12: every position lookup made while a transaction is processed uses   *)
(* the upper-cased ticker: positions are keyed by upper-cased tickers only *)
(* (no second row differing in case), and a sell whose ticker differs only *)
(* in letter case from a held position is checked against, and applied to, *)
(* that position.                                                          *)
(***************************************************************************)
C12_CaseInsensitiveLookup ==
    /\ \A t \in DOMAIN db.portfolio : t = Upper(t)
    /\ (/\ IsTx /\ ValidRequest /\ last.clean /\ ReqType = "sell"
        /\ Held(last.pre, ReqTicker) > 0
        /\ ReqShares <= Held(last.pre, ReqTicker))
          => (last.ret = "done" /\ PositionMoved)

\* n tenths of a currency unit.
Tenths(n) == (n * Scale) \div 10

\* A completed withdrawal of a shareholder with ownership 10 and investment
\* 40 from a firm with cash 500 and assets 0.
C13_Case ==
    /\ IsWithdrawal /\ last.ret = "true"
    /\ last.pre.cash = Dec(500) /\ last.pre.assets = 0
    /\ last.pre.shareholders[last.id].ownership = Dec(10)
    /\ last.pre.shareholders[last.id].investment = Dec(40)

(***************************************************************************)
(* C13 as stated: that withdrawal computes entitled_value 50, liquidates   *)
(* nothing, has profit 10 and management_fee 0.2, ends with final          *)
(* cash_withdrawal 9.8, deletes the shareholder row and lowers Firm.cash   *)
(* by exactly 9.8.                                                         *)
(***************************************************************************)
C13_AsStated ==
    C13_Case =>
        /\ last.calc.entitled = Dec(50) /\ last.calc.plans = << >>
        /\ last.calc.profit = Dec(10) /\ last.calc.fee = Tenths(2)
        /\ last.calc.cash_withdrawal = Tenths(98)
        /\ last.id \notin DOMAIN db.shareholders
        /\ last.clean => db.cash = last.pre.cash - Tenths(98)

(***************************************************************************)
(* C13 amended: the final cash_withdrawal is the entitled value less the   *)
(* fee, 50 - 0.2 = 49.8, and Firm.cash falls by exactly 49.8 (to 450.2);   *)
(* 9.8 is the net profit, profit - management_fee.                         *)
(***************************************************************************)
C13_CashWithdrawal ==
    C13_Case =>
        /\ last.calc.entitled = Dec(50) /\ last.calc.plans = << >>
        /\ last.calc.profit = Dec(10) /\ last.calc.fee = Tenths(2)
        /\ last.calc.profit - last.calc.fee = Tenths(98)
        /\ last.calc.cash_withdrawal = Tenths(498)
        /\ last.id \notin DOMAIN db.shareholders
        /\ last.clean => db.cash = last.pre.cash - Tenths(498)

C13_Witness ==
    /\ C13_Case /\ last.clean
    /\ db.cash = Tenths(4502)
    /\ DOMAIN db.shareholders = DOMAIN last.pre.shareholders \ {last.id}

EntitledBefore ==
    Mul(last.pre.cash + last.pre.assets,
        Div(last.pre.shareholders[last.id].ownership, Dec(100)))

NoPricedPosition(d) ==
    \A t \in DOMAIN d.portfolio :
        d.portfolio[t].current_price = 0 \/ d.portfolio[t].total_shares <= 0

\* A withdrawal whose entitled value exceeds Firm.cash while nothing can be
\* liquidated.
NothingToLiquidate ==
    /\ IsWithdrawal
    /\ last.id \in DOMAIN last.pre.shareholders
    /\ EntitledBefore > last.pre.cash
    /\ NoPricedPosition(last.pre)

(***************************************************************************)
(* C15: if the entitled value exceeds Firm.cash (remaining > 0) and no     *)
(* position has both a known current price and positive shares, the        *)
(* withdrawal fails: the Shareholder row is kept and the Firm, position    *)
(* and Transaction rows are unchanged.                                     *)
(***************************************************************************)
C15_NoPricedPositionFails ==
    NothingToLiquidate => (last.ret = "false" /\ db = last.pre)

\* A withdrawal that built a liquidation plan.
PlanBuilt == IsWithdrawal /\ last.calc.remaining > 0

(***************************************************************************)
(* C16: whenever a liquidation plan is built (remaining > 0), the total    *)
(* value of its lines, the sum of whole_shares * current_price, is at      *)
(* least remaining.                                                        *)
(***************************************************************************)
C16_NeverUnderLiquidates ==
    PlanBuilt => SumValues(last.calc.plans) >= last.calc.remaining

(***************************************************************************)
(* C17: for every liquidation line the whole-share count sold exceeds the  *)
(* exact proportional count position.shares * remaining/total_assets_value *)
(* by less than one share and never exceeds position.shares.               *)
(***************************************************************************)
C17_OverLiquidationBelowOneShare ==
    PlanBuilt =>
        \A i \in 1..Len(last.calc.plans) :
            LET plan == last.calc.plans[i]
                shares == Held(last.pre, plan.ticker)
                total_assets_value == SumAssetValue(last.pre.portfolio, 1)
            IN  /\ plan.whole_shares <= shares
                /\ (plan.whole_shares - Dec(1)) * total_assets_value
                      < shares * last.calc.remaining

(***************************************************************************)
(* C18: every withdrawal run ends in exactly one terminal state: Completed *)
(* (returns True), with the transaction committed and the Shareholder row  *)
(* deleted, or Cancelled/Failed (returns False), with nothing committed    *)
(* and the Shareholder row kept.                                           *)
(***************************************************************************)
C18_OneTerminalState ==
    IsWithdrawal =>
        \/ /\ last.ret = "true"
           /\ last.id \in DOMAIN last.pre.shareholders
           /\ last.id \notin DOMAIN db.shareholders
        \/ /\ last.ret = "false"
           /\ db = last.pre

\* A run that failed on a repository error after its liquidation plan was
\* confirmed: every prompt was answered yes, nothing is committed.
C18_Witness ==
    /\ IsWithdrawal /\ last.ret = "false" /\ last.answers = 0 /\ ~last.clean
    /\ last.id \in DOMAIN db.shareholders
    /\ last.calc.plans # << >>
    /\ db = last.pre

\* The Shareholder rows the last run deleted.
DeletedRows == DOMAIN last.pre.shareholders \ DOMAIN db.shareholders

AddedRows == DOMAIN db.shareholders \ DOMAIN last.pre.shareholders

(***************************************************************************)
(* C20: after a shareholder-creation request a new Shareholder row exists  *)
(* if and only if Firm.cash was increased by exactly that shareholder's    *)
(* investment; otherwise (request rejected by validation, Firm lookup or   *)
(* Firm update failed) the Shareholder table and Firm.cash are unchanged.  *)
(***************************************************************************)
C20_RowIffCashIncreased ==
    last.op = "create_shareholder" =>
        \/ /\ Cardinality(AddedRows) = 1
           /\ \A id \in AddedRows : db.shareholders[id].investment = Dec(last.sh.investment)
           /\ db.cash = last.pre.cash + Dec(last.sh.investment)
        \/ /\ db.shareholders = last.pre.shareholders
           /\ db.cash = last.pre.cash

(***************************************************************************)
(* C21: after shareholder creations and shareholder updates every stored   *)
(* shareholder has 0 < ownership <= 100, and a request that would set an   *)
(* ownership outside that range changes nothing.                           *)
(***************************************************************************)
IsCreateShareholder == last.op = "create_shareholder"

IsUpdateShareholder == last.op = "update_shareholder"

OwnershipInRange(o) == 0 < o /\ o <= Dec(100)

C21_OwnershipInRange ==
    (IsCreateShareholder \/ IsUpdateShareholder) =>
        /\ \A id \in DOMAIN db.shareholders :
              OwnershipInRange(db.shareholders[id].ownership)
        /\ (IsCreateShareholder /\ ~OwnershipInRange(Dec(last.sh.ownership)))
              => db = last.pre
        /\ (IsUpdateShareholder /\ last.sh.key = "ownership"
                /\ ~OwnershipInRange(Dec(last.sh.value)))
              => db = last.pre

(***************************************************************************)
(* C22: a Transaction record that exists when a command starts is the same *)
(* record when the command ends (the backfill of a sell happens in the     *)
(* command that creates it), and no buy record carries backfilled fields.  *)
(***************************************************************************)
C22_RecordsImmutable ==
    /\ \A i \in DOMAIN last.pre.transactions :
          /\ i \in DOMAIN db.transactions
          /\ db.transactions[i] = last.pre.transactions[i]
    /\ \A i \in DOMAIN db.transactions :
          db.transactions[i].transaction_type = "buy" => ~db.transactions[i].backfilled

(***************************************************************************)
(* PortfolioGenerator (icarus/analysis/portfolio/generator.py).            *)
(* Yields are counted in percent; float() of a yield and the float bounds  *)
(* of a criterion compare as these counts do.  A ticker's data is a        *)
(* function from the attributes it has to their values.                    *)
(***************************************************************************)
MaxPortfolios == 2

ticker_data ==
    ("KO" :> [dividend_yield |-> 2, sector |-> "Consumer Defensive"])
    @@ ("PEP" :> [dividend_yield |-> 3, sector |-> "Consumer Defensive"])
    @@ ("PG" :> [dividend_yield |-> 6, sector |-> "Consumer Defensive"])
    @@ ("XOM" :> [dividend_yield |-> 7, sector |-> "Energy"])
    @@ ("NVDA" :> [sector |-> "Technology"])

\* list(self.ticker_data.keys()): the keys in insertion order.
Keys(data) ==
    SelectSeq(<<"KO", "PEP", "PG", "XOM", "NVDA">>, LAMBDA t : t \in DOMAIN data)

\* Variant: the upper bound is not applied.
range_filter_min_only(criterion, data) ==
    /\ criterion.attribute \in DOMAIN data
    /\ "min_value" \in DOMAIN criterion => data[criterion.attribute] >= criterion.min_value

\* add_range_criterion: a criterion is a function from "attribute" and the
\* bounds that are not None to their values.
range_filter(criterion, data) ==
    IF criterion.attribute \notin DOMAIN data THEN FALSE
    ELSE LET value == data[criterion.attribute]
         IN  IF "min_value" \in DOMAIN criterion /\ value < criterion.min_value THEN FALSE
             ELSE IF "max_value" \in DOMAIN criterion /\ value > criterion.max_value
             THEN FALSE
             ELSE TRUE

\* The sort key; with both bounds it is counted in units of
\* 1 / (max_value - min_value), which orders one criterion's keys as the
\* quotient 1 - distance / max_distance does.
range_sort_key(criterion, data) ==
    IF criterion.attribute \notin DOMAIN data THEN 0
    ELSE LET value == data[criterion.attribute]
         IN  IF "min_value" \in DOMAIN criterion /\ "max_value" \in DOMAIN criterion
             THEN IF criterion.max_value - criterion.min_value > 0
                  THEN (criterion.max_value - criterion.min_value)
                       - Abs(2 * value - (criterion.min_value + criterion.max_value))
                  ELSE 0
             ELSE IF "min_value" \in DOMAIN criterion THEN value
             ELSE IF "max_value" \in DOMAIN criterion THEN -value
             ELSE 0

RECURSIVE SumSortKeys(_, _, _)
SumSortKeys(criteria, data, i) ==
    IF i > Len(criteria) THEN 0
    ELSE range_sort_key(criteria[i], data) + SumSortKeys(criteria, data, i + 1)

\* candidates.sort(key=..., reverse=True): descending and stable.
RECURSIVE SortCandidates(_, _, _)
SortCandidates(candidates, criteria, data) ==
    IF candidates = << >> THEN << >>
    ELSE LET n == Len(candidates)
             front == SortCandidates(SubSeq(candidates, 1, n - 1), criteria, data)
             x == candidates[n]
             p == Cardinality({i \in 1..Len(front) :
                      SumSortKeys(criteria, data[front[i]], 1)
                          >= SumSortKeys(criteria, data[x], 1)})
         IN  SubSeq(front, 1, p) \o <<x>> \o SubSeq(front, p + 1, Len(front))

Elements(seq) == {seq[i] : i \in 1..Len(seq)}

\* random.sample(population, k): the sets of k members it can draw.
Samples(population, k) == {S \in SUBSET Elements(population) : Cardinality(S) = k}

\* random.shuffle(selected); selected[:stocks_per_portfolio]
Shuffled(selected, stocks_per_portfolio) ==
    {q \in [1..Min(stocks_per_portfolio, Cardinality(selected)) -> selected] :
        \A i, j \in DOMAIN q : i # j => q[i] # q[j]}

\* Python's seq[a:b] for 0 <= a <= b.
Slice(seq, a, b) == SubSeq(seq, Min(a, Len(seq)) + 1, Min(b, Len(seq)))

\* The sets of tickers selected before the shuffle: up to two from each
\* third of the candidates, then the fill from the remaining candidates.
Selections(candidates, stocks_per_portfolio) ==
    LET segment_size == Max(1, Len(candidates) \div 3)
        high_segment == Slice(candidates, 0, segment_size)
        mid_segment == Slice(candidates, segment_size, 2 * segment_size)
        low_segment == Slice(candidates, 2 * segment_size, Len(candidates))
        drawn == {H \cup M \cup L :
                     H \in Samples(high_segment, Min(2, Len(high_segment))),
                     M \in Samples(mid_segment, Min(2, Len(mid_segment))),
                     L \in Samples(low_segment, Min(2, Len(low_segment)))}
        filled(selected) ==
            IF Cardinality(selected) < stocks_per_portfolio
            THEN LET remaining == SelectSeq(candidates, LAMBDA t : t \notin selected)
                 IN  {selected \cup R :
                         R \in Samples(remaining,
                                       Min(stocks_per_portfolio - Cardinality(selected),
                                           Len(remaining)))}
            ELSE {selected}
    IN  UNION {filled(selected) : selected \in drawn}

\* The portfolios one call of _create_portfolio can return.
create_portfolio(valid_tickers, stocks_per_portfolio, criteria, data) ==
    LET candidates == IF Len(criteria) > 0
                      THEN SortCandidates(valid_tickers, criteria, data)
                      ELSE valid_tickers
    IN  UNION {Shuffled(selected, stocks_per_portfolio) :
                  selected \in Selections(candidates, stocks_per_portfolio)}

RECURSIVE ApplyFilters(_, _, _, _)
ApplyFilters(valid_tickers, criteria, data, i) ==
    IF i > Len(criteria) THEN valid_tickers
    ELSE ApplyFilters(SelectSeq(valid_tickers, LAMBDA t : range_filter(criteria[i], data[t])),
                      criteria, data, i + 1)

\* generate_portfolios up to its loop: the tickers the portfolios are drawn
\* from, or the error it logs before returning [].  A request is a function
\* from the arguments that are not None to their values.
valid_tickers_of(request) ==
    LET data == request.ticker_data
        all_tickers == Keys(data)
        yielding == IF "min_yield" \in DOMAIN request
                    THEN SelectSeq(all_tickers,
                             LAMBDA t : /\ "dividend_yield" \in DOMAIN data[t]
                                        /\ data[t].dividend_yield >= request.min_yield)
                    ELSE all_tickers
    IN  IF DOMAIN data = {} THEN [error |-> "No ticker data available", tickers |-> << >>]
        ELSE IF Len(yielding) < request.stocks_per_portfolio
        THEN [error |-> "Not enough valid tickers", tickers |-> << >>]
        ELSE [error |-> "", tickers |-> ApplyFilters(yielding, request.criteria, data, 1)]

CriteriaChoices ==
    { << >>,
      << [attribute |-> "dividend_yield", min_value |-> 2, max_value |-> 6] >>,
      << [attribute |-> "dividend_yield", min_value |-> 3] >> }

PlainRequests ==
    [ticker_data : {ticker_data, EmptyFn}, criteria : CriteriaChoices,
     num_portfolios : 1..MaxPortfolios, stocks_per_portfolio : {2, 3}]

GeneratorRequests ==
    PlainRequests \cup {r @@ ("min_yield" :> y) : r \in PlainRequests, y \in {3, 7}}

InitGenerator ==
    /\ gen \in {[pc |-> "call", request |-> r, valid_tickers |-> << >>,
                 portfolios |-> << >>, error |-> ""] : r \in GeneratorRequests}
    /\ db = InitDb
    /\ last = NoLast
    /\ ops = 0
    /\ call = Idle
    /\ procs = Idle

GeneratePortfolios ==
    /\ gen.pc = "call"
    /\ LET v == valid_tickers_of(gen.request)
       IN  gen' = [gen EXCEPT !.pc = IF v.error = "" THEN "loop" ELSE "returned",
                              !.valid_tickers = v.tickers, !.error = v.error]
    /\ UNCHANGED <<ledger, call, procs>>

CreatePortfolio ==
    /\ gen.pc = "loop"
    /\ Len(gen.portfolios) < gen.request.num_portfolios
    /\ \E portfolio \in create_portfolio(gen.valid_tickers,
                                         gen.request.stocks_per_portfolio,
                                         gen.request.criteria, gen.request.ticker_data) :
          gen' = [gen EXCEPT !.portfolios = Append(@, portfolio)]
    /\ UNCHANGED <<ledger, call, procs>>

ReturnPortfolios ==
    /\ gen.pc = "loop"
    /\ Len(gen.portfolios) = gen.request.num_portfolios
    /\ gen' = [gen EXCEPT !.pc = "returned"]
    /\ UNCHANGED <<ledger, call, procs>>

NextGenerator ==
    \/ GeneratePortfolios
    \/ CreatePortfolio
    \/ ReturnPortfolios

SpecGenerator == InitGenerator /\ [][NextGenerator]_vars

(***************************************************************************)
(* C23: every portfolio generate_portfolios returns holds exactly          *)
(* stocks_per_portfolio pairwise different tickers, or the generator has   *)
(* reported that it could not reach that size.                             *)
(***************************************************************************)
Returned == gen.pc = "returned"

Distinct(portfolio) ==
    \A i, j \in DOMAIN portfolio : i # j => portfolio[i] # portfolio[j]

C23_FullSizeOrReported ==
    Returned =>
        \A i \in DOMAIN gen.portfolios :
            \/ /\ Len(gen.portfolios[i]) = gen.request.stocks_per_portfolio
               /\ Distinct(gen.portfolios[i])
            \/ gen.error # ""

(***************************************************************************)
(* C24: generate_portfolios makes at most 3 * num_portfolios attempts,     *)
(* returns at most num_portfolios portfolios, no two of them with the same *)
(* set of tickers and none with fewer than stocks_per_portfolio tickers.   *)
(* Every attempt of the code ends in a returned portfolio.                 *)
(***************************************************************************)
TickerSet(portfolio) == {portfolio[i] : i \in DOMAIN portfolio}

C24_UniqueFullBaskets ==
    /\ Len(gen.portfolios) <= gen.request.num_portfolios
    /\ Returned =>
          /\ \A i, j \in DOMAIN gen.portfolios :
                i # j => TickerSet(gen.portfolios[i]) # TickerSet(gen.portfolios[j])
          /\ \A i \in DOMAIN gen.portfolios :
                Len(gen.portfolios[i]) >= gen.request.stocks_per_portfolio

(***************************************************************************)
(* C25: every ticker of every returned portfolio has each attribute the    *)
(* request filters on, with a value inside the configured bounds, the      *)
(* bounds included: min_yield <= dividend_yield, and                       *)
(* min_value <= value <= max_value for every range criterion.              *)
(***************************************************************************)
WithinBounds(request, t) ==
    LET data == request.ticker_data[t]
    IN  /\ "min_yield" \in DOMAIN request =>
              /\ "dividend_yield" \in DOMAIN data
              /\ request.min_yield <= data.dividend_yield
        /\ \A i \in DOMAIN request.criteria :
              LET criterion == request.criteria[i]
              IN  /\ criterion.attribute \in DOMAIN data
                  /\ "min_value" \in DOMAIN criterion =>
                         criterion.min_value <= data[criterion.attribute]
                  /\ "max_value" \in DOMAIN criterion =>
                         data[criterion.attribute] <= criterion.max_value

C25_BasketsWithinBounds ==
    \A i \in DOMAIN gen.portfolios :
        \A t \in TickerSet(gen.portfolios[i]) : WithinBounds(gen.request, t)

\* A returned portfolio holds a ticker whose yield is the minimum and one
\* whose yield is the maximum of the range criterion, while the universe
\* holds tickers outside the range and one without a dividend yield.
C25_Witness ==
    /\ Returned
    /\ Len(gen.request.criteria) = 1
    /\ "max_value" \in DOMAIN gen.request.criteria[1]
    /\ \E i \in DOMAIN gen.portfolios :
          /\ \E t \in TickerSet(gen.portfolios[i]) :
                gen.request.ticker_data[t].dividend_yield = gen.request.criteria[1].min_value
          /\ \E t \in TickerSet(gen.portfolios[i]) :
                gen.request.ticker_data[t].dividend_yield = gen.request.criteria[1].max_value
    /\ \E t \in DOMAIN gen.request.ticker_data : ~WithinBounds(gen.request, t)

(***************************************************************************)
(* C26: no returned portfolio holds more than max_stocks_per_sector        *)
(* tickers of one sector.                                                  *)
(***************************************************************************)
max_stocks_per_sector == 2

SectorCount(request, portfolio, sector) ==
    Cardinality({t \in TickerSet(portfolio) : request.ticker_data[t].sector = sector})

C26_SectorCap ==
    Returned =>
        \A i \in DOMAIN gen.portfolios :
            \A t \in TickerSet(gen.portfolios[i]) :
                SectorCount(gen.request, gen.portfolios[i],
                            gen.request.ticker_data[t].sector) <= max_stocks_per_sector

(***************************************************************************)
(* handle_db_errors, one call of a wrapped repository method step by step: *)
(* the attempts of its loop, the exception each raises and the rollback of *)
(* its handler.  An OperationalError may be the loss of the connection;    *)
(* connection.rollback() on a closed connection raises InterfaceError,     *)
(* which no handler of the wrapper catches.                                *)
(***************************************************************************)
WrappedMethods == {"create", "get_entity", "get_all", "update", "delete"}

Raised == {"IntegrityError", "OperationalError", "Exception"}

InitWrapper ==
    /\ call \in {[pc |-> "try", func |-> m, attempt |-> 0, executions |-> 0,
                  rollbacks |-> 0, closed |-> FALSE, errs |-> << >>,
                  result |-> "pending"] : m \in WrappedMethods}
    /\ db = InitDb
    /\ last = NoLast
    /\ ops = 0
    /\ procs = Idle
    /\ gen = Idle

\* result = func(*args, **kwargs); return result
Execute ==
    /\ call.pc = "try"
    /\ call.attempt < max_retries
    /\ \/ call' = [call EXCEPT !.pc = "returned", !.executions = @ + 1,
                               !.result = "result"]
       \/ \E e \in Raised, lost \in BOOLEAN :
             /\ lost => e = "OperationalError"
             /\ call' = [call EXCEPT !.pc = "except", !.executions = @ + 1,
                                     !.errs = Append(@, e), !.closed = lost]
    /\ UNCHANGED <<ledger, procs, gen>>

\* The except clauses: args[0].db.connection.rollback(), then return None
\* or the next attempt.
HandleError ==
    /\ call.pc = "except"
    /\ LET e == call.errs[Len(call.errs)]
       IN  IF call.closed
           THEN call' = [call EXCEPT !.pc = "raised", !.result = "InterfaceError"]
           ELSE IF e = "OperationalError"
           THEN call' = [call EXCEPT !.pc = "try", !.rollbacks = @ + 1,
                                     !.attempt = @ + 1]
           ELSE call' = [call EXCEPT !.pc = "returned", !.rollbacks = @ + 1,
                                     !.result = "None"]
    /\ UNCHANGED <<ledger, procs, gen>>

\* The loop ends after max_retries attempts: return None.
GiveUp ==
    /\ call.pc = "try"
    /\ call.attempt >= max_retries
    /\ call' = [call EXCEPT !.pc = "returned", !.result = "None"]
    /\ UNCHANGED <<ledger, procs, gen>>

NextWrapper ==
    \/ Execute
    \/ HandleError
    \/ GiveUp

SpecWrapper == InitWrapper /\ [][NextWrapper]_vars

(***************************************************************************)
(* C27: a wrapped operation is executed at most max_retries = 3 times per  *)
(* call, again only after an OperationalError, the connection is rolled    *)
(* back after every failed attempt, and the call returns the result or     *)
(* None to its caller and never raises.                                    *)
(***************************************************************************)
C27_ReturnsWithoutRaising ==
    /\ call.executions <= max_retries
    /\ \A i \in 1..(call.executions - 1) : call.errs[i] = "OperationalError"
    /\ call.pc \in {"try", "returned"} => call.rollbacks = Len(call.errs)
    /\ call.pc = "returned" =>
          call.result = (IF call.executions > Len(call.errs) THEN "result" ELSE "None")
    /\ call.pc # "raised"

(***************************************************************************)
(* Two processes run handle_create_transaction for the same firm, each on  *)
(* its own connection (PostgreSQL's default READ COMMITTED): a SELECT sees *)
(* the committed Firm row, an UPDATE waits while the other connection's    *)
(* uncommitted UPDATE holds the row, and the connection context commits.   *)
(* procs.cash is the committed Firm.cash, procs.lock the connection whose  *)
(* uncommitted UPDATE holds the Firm row (0: none).                        *)
(***************************************************************************)
Connections == {1, 2}

ConcurrentRequests ==
    {TxReq("AAPL", 10, 20, "buy"), TxReq("MSFT", 5, 20, "buy"), TxReq("AAPL", 4, 25, "sell")}

cash_change(r) ==
    Mul(Dec(r.shares), Dec(r.price_per_share)) * (IF r.transaction_type = "sell" THEN 1 ELSE -1)

InitConcurrent ==
    /\ \E cash \in {Dec(150), Dec(300)} :
          procs \in {[cash |-> cash, initial |-> cash, lock |-> 0,
                      p |-> [i \in Connections |->
                                [pc |-> "check", tx |-> r[i], accepted |-> FALSE,
                                 firm_cash |-> 0, new_cash |-> 0]]] :
                        r \in [Connections -> ConcurrentRequests]}
    /\ db = InitDb
    /\ last = NoLast
    /\ ops = 0
    /\ call = Idle
    /\ gen = Idle

\* The funds check of a buy on the committed Firm row; the Transaction and
\* the position are written next and touch no Firm column.
CheckFunds ==
    /\ \E i \in Connections :
          /\ procs.p[i].pc = "check"
          /\ procs' = [procs EXCEPT !.p[i].pc =
                           IF procs.p[i].tx.transaction_type = "buy"
                              /\ InsufficientFunds(procs, -cash_change(procs.p[i].tx))
                           THEN "done" ELSE "read",
                         !.p[i].accepted =
                           ~(procs.p[i].tx.transaction_type = "buy"
                             /\ InsufficientFunds(procs, -cash_change(procs.p[i].tx)))]
    /\ UNCHANGED <<ledger, call, gen>>

\* firm = firm_repo.get_entity(id=1)
ReadFirm ==
    /\ \E i \in Connections :
          /\ procs.p[i].pc = "read"
          /\ procs' = [procs EXCEPT !.p[i].pc = "update",
                                    !.p[i].firm_cash = procs.cash]
    /\ UNCHANGED <<ledger, call, gen>>

\* firm_repo.update(1, CASH=firm.cash + cash_change)
UpdateFirm ==
    /\ \E i \in Connections :
          /\ procs.p[i].pc = "update"
          /\ procs.lock \in {0, i}
          /\ procs' = [procs EXCEPT !.p[i].pc = "commit", !.lock = i,
                                    !.p[i].new_cash =
                                        procs.p[i].firm_cash + cash_change(procs.p[i].tx)]
    /\ UNCHANGED <<ledger, call, gen>>

\* DatabaseConnection.__exit__: connection.commit()
Commit ==
    /\ \E i \in Connections :
          /\ procs.p[i].pc = "commit"
          /\ procs' = [procs EXCEPT !.p[i].pc = "done", !.lock = 0,
                                    !.cash = procs.p[i].new_cash]
    /\ UNCHANGED <<ledger, call, gen>>

NextConcurrent ==
    \/ CheckFunds
    \/ ReadFirm
    \/ UpdateFirm
    \/ Commit

SpecConcurrent == InitConcurrent /\ [][NextConcurrent]_vars

(***************************************************************************)
(* C28: when both processes have committed, Firm.cash is the initial cash  *)
(* plus the cash changes of both requests (of those that were accepted).   *)
(***************************************************************************)
AcceptedChange(i) == IF procs.p[i].accepted THEN cash_change(procs.p[i].tx) ELSE 0

AssetsSynced(d) == d.assets = SumAssetValue(d.portfolio, 1)

Completed == IsWithdrawal /\ last.ret = "true"

(***************************************************************************)
(* C29: if Firm.assets equals the sum of total_shares * current_price over *)
(* the priced positions before a withdrawal, the equality holds again      *)
(* after the withdrawal has completed (assets fall by the value of the     *)
(* shares sold at their current price), and Firm.assets stays >= 0.        *)
(***************************************************************************)
C29_AssetsStaySynced ==
    (Completed /\ AssetsSynced(last.pre)) => (AssetsSynced(db) /\ db.assets >= 0)

\* The same for runs in which every repository call succeeded at once.
C29_CleanRuns ==
    (Completed /\ last.clean /\ AssetsSynced(last.pre)) =>
        (AssetsSynced(db) /\ db.assets >= 0)

C29_Witness ==
    /\ Completed /\ last.clean /\ AssetsSynced(last.pre)
    /\ Len(last.calc.plans) > 0
    /\ db.assets < last.pre.assets


RECURSIVE OwnershipSum(_, _)
OwnershipSum(shareholders, ids) ==
    IF ids = {} THEN 0
    ELSE LET id == CHOOSE x \in ids : TRUE
         IN  shareholders[id].ownership + OwnershipSum(shareholders, ids \ {id})

TotalOwnership(d) == OwnershipSum(d.shareholders, DOMAIN d.shareholders)

RECURSIVE EntitledSum(_, _)
EntitledSum(d, ids) ==
    IF ids = {} THEN 0
    ELSE LET id == CHOOSE x \in ids : TRUE
         IN  Mul(d.cash + d.assets, Div(d.shareholders[id].ownership, Dec(100)))
                + EntitledSum(d, ids \ {id})

(***************************************************************************)
(* C30: a shareholder creation or a withdrawal that starts with stored     *)
(* ownership percentages summing to at most 100 ends with them summing to  *)
(* at most 100, so the entitled values of the stored shareholders together *)
(* never exceed Firm.cash + Firm.assets.                                   *)
(***************************************************************************)
C30_OwnershipAtMostWhole ==
    ((IsCreateShareholder \/ IsWithdrawal) /\ TotalOwnership(last.pre) <= Dec(100)) =>
        /\ TotalOwnership(db) <= Dec(100)
        /\ EntitledSum(db, DOMAIN db.shareholders) <= db.cash + db.assets

\* The same for withdrawals alone, which only remove rows.
C30_WithdrawalsOnly ==
    (IsWithdrawal /\ TotalOwnership(last.pre) <= Dec(100)) =>
        TotalOwnership(db) <= Dec(100)

====
